---- MODULE Spec2Model ----
(***************************************************************************)
(* The polling/resolution engine of @mynthio/sdk: TaskAsync.toTask, its    *)
(* memoized completion promise, pollUntilCompleted, fetchStatus and        *)
(* fetchTask (src/src/task-async.ts), over the transport MynthClient.get   *)
(* (src/src/types.ts).                                                     *)
(*                                                                         *)
(* One TaskAsync handle is modelled.  Time is the millisecond clock read   *)
(* by Date.now(); it advances while the loop is suspended at a network     *)
(* call (by the latency of the call) or at a sleep (by the sleep's length). *)
(* JavaScript runs each continuation to its next await without             *)
(* interleaving, so every action below is one such run.                    *)
(***************************************************************************)
EXTENDS Integers, Sequences, FiniteSets, TLC

\* ---------------------------------------------------------------- constants
POLLING_TIMEOUT_MS == 300000
FAST_POLLING_DURATION_MS == 12000
FAST_POLLING_INTERVAL_MS == 2500
SLOW_POLLING_INTERVAL_MS == 5000
MAX_RETRY_COUNT == 7

\* ------------------------------------------------------------------- bounds
\* Number of callers that hold the handle and call toTask().
MaxCallers == 2
\* Clock value when the handle is constructed.
Epoch == 1000
\* The server answers this many status checks at once ...
MaxFastPolls == 8
\* ... then stalls on this many, and answers the rest at any pace.
MaxStalls == 2
\* A status check may hang only among the first this many (a cold server).
ColdPolls == 1

Callers == 1..MaxCallers

\* Samples of Math.random() * 500, which lies in [0, 500).
Jitters == {0, 250}

\* Latencies of a network call, in ms: an immediate answer, a stalled call, and
\* a call that hangs for as long as the whole polling budget.
SlowLatency == 130000
HangLatency == 300000
Latencies == {0, SlowLatency, HangLatency}

\* The id given to the TaskAsync constructor, and another task's id.
TaskId == "task-1"
OtherId == "task-2"

Min(a, b) == IF a <= b THEN a ELSE b

\* ----------------------------------------------------------------- transport
\* What `await client.get(...)` produces: a thrown error (fetch or
\* response.json() rejected) or {data, status, ok} with ok = response.ok.
\* of a thrown answer, data is the Error object thrown.
Threw == [threw |-> TRUE, ok |-> FALSE, status |-> 0, data |-> "Error"]
\* The same, with another Error object.
ThrewAgain == [threw |-> TRUE, ok |-> FALSE, status |-> 0, data |-> "Error2"]
Http(s, d) == [threw |-> FALSE, ok |-> (s >= 200 /\ s <= 299), status |-> s, data |-> d]

StatusResponses ==
    {Threw}
    \cup {Http(200, d) : d \in {"pending", "processing", "completed", "failed"}}
    \cup {Http(s, "error") : s \in {400, 401, 403, 404, 500, 503}}

FetchResponses ==
    {Threw}
    \cup {Http(200, d) : d \in {TaskId, OtherId}}
    \cup {Http(s, "error") : s \in {400, 401, 403, 404, 500}}

\* No answer yet.
NoResponse == [threw |-> FALSE, ok |-> FALSE, status |-> 0, data |-> "none"]

\* A transport that ignores the credential override.
getAuthHeaders_ApiKeyOnly(accessToken) == "apiKey"

\* MynthClient.getAuthHeaders: override?.accessToken ?? this.apiKey
getAuthHeaders(accessToken) ==
    IF accessToken # "undefined" THEN accessToken ELSE "apiKey"

VARIABLES
    now,                \* Date.now()
    publicAccessToken,  \* this._access.publicAccessToken: "pat" or "undefined"
    completionPromise,  \* this._completionPromise: "null" or "promise"
    call,               \* per caller: "idle", "waiting" (awaiting toTask()), "got"
    seen,               \* per caller: the outcome its last toTask() settled with
    pc,                 \* where pollUntilCompleted is suspended
    outcome,            \* how the completion promise settled
    startTime, elapsed, retryCount, useApiKeyFallback, lastError,
    interval, waitTime, \* locals of pollUntilCompleted
    loopsStarted,       \* calls of pollUntilCompleted
    nStatus, nFetch,    \* status checks and full fetches issued
    inFlight,           \* network calls issued and not yet returned
    iterations,         \* loop iterations begun
    immediateRetries,   \* status checks issued with no sleep since the previous one
    lastEvent,          \* the await that returned last: "status", "sleep", "fetch"
    lastClass,          \* class of the last status response, until the next sleep ends
    failRun,            \* retryable failures since the last successful status check
    allPending,         \* every status response so far was a successful "pending"
    lastAuth,           \* Authorization of the last network call issued
    plan,               \* the answers the server is set up to give, if scripted
    fetched,            \* what client.get answered to the full fetch
    mode,               \* opts.mode of the generate() call, "none" without one
    gen,                \* where generate() is; "direct": handle built by its user
    read,               \* what the getters id and access last returned
    allOther,           \* every status response so far was a non-success of no class
    lastThrown,         \* the Error the last status check threw, until the next sleep ends
    classified,         \* an answer given to fetchStatus on its own, and its result
    cur,                \* the handle whose state the variables above hold: 1 or 2
    other               \* the state of the second handle, when there is one

vars == <<now, publicAccessToken, completionPromise, call, seen, pc, outcome,
          startTime, elapsed, retryCount, useApiKeyFallback, lastError,
          interval, waitTime, loopsStarted, nStatus, nFetch, inFlight,
          iterations, immediateRetries, lastEvent, lastClass, failRun,
          allPending, lastAuth, plan, fetched, mode, gen, read, allOther, lastThrown,
                   classified, cur, other>>

\* ------------------------------------------------------------------ outcomes
NoOutcome == [kind |-> "none", id |-> "", cause |-> "", status |-> 0, by |-> 0]
Outcome(k, by) == [kind |-> k, id |-> "", cause |-> "", status |-> 0, by |-> by]
\* A Task that takes its id from the handle instead of the fetched record.
TaskOutcome_HandleId(data, by) == [Outcome("Task", by) EXCEPT !.id = TaskId]

TaskOutcome(data, by) == [Outcome("Task", by) EXCEPT !.id = data]
\* A timeout reported with the class of the retry-exhaustion error.
TaskAsyncTimeoutError_AsFetchError(by) == Outcome("FetchError", by)

TaskAsyncTimeoutError(by) == Outcome("Timeout", by)
TaskAsyncUnauthorizedError(by) == Outcome("Unauthorized", by)
TaskAsyncFetchError(cause, by) == [Outcome("FetchError", by) EXCEPT !.cause = cause]
TaskAsyncTaskFetchError(status, by) == [Outcome("TaskFetchError", by) EXCEPT !.status = status]
TaskAsyncTaskFailedError(by) == Outcome("TaskFailed", by)
TransportError(by) == [Outcome("TransportError", by) EXCEPT !.cause = "Error"]

\* ------------------------------------------------------------ pure functions
\* A fetchStatus that ignores its useApiKey argument.
accessToken_IgnoresFallback(useApiKey) == publicAccessToken

\* fetchStatus: the override credential of the status check.
accessToken(useApiKey) ==
    IF useApiKey \/ publicAccessToken = "undefined"
        THEN "undefined" ELSE publicAccessToken

\* A fetchStatus that counts every non-success answer but 401, 403, 404 as
\* retryable.
fetchStatus_4xxRetryable(resp) ==
    IF resp.threw
        THEN [ok |-> FALSE, status |-> "none", unauthorized |-> FALSE,
              retryable |-> TRUE, error |-> resp.data]
    ELSE IF resp.ok
        THEN [ok |-> TRUE, status |-> resp.data, unauthorized |-> FALSE,
              retryable |-> FALSE, error |-> "undefined"]
    ELSE [ok |-> FALSE, status |-> "none",
          unauthorized |-> resp.status \in {401, 403, 404},
          retryable |-> resp.status \notin {401, 403, 404}, error |-> "undefined"]

\* A fetchStatus whose catch block reports the failure as not retryable.
fetchStatus_ThrowsNotRetryable(resp) ==
    IF resp.threw
        THEN [ok |-> FALSE, status |-> "none", unauthorized |-> FALSE,
              retryable |-> FALSE, error |-> resp.data]
    ELSE IF resp.ok
        THEN [ok |-> TRUE, status |-> resp.data, unauthorized |-> FALSE,
              retryable |-> FALSE, error |-> "undefined"]
    ELSE [ok |-> FALSE, status |-> "none",
          unauthorized |-> resp.status \in {401, 403, 404},
          retryable |-> resp.status >= 500, error |-> "undefined"]

\* A fetchStatus that reports a failed task as still pending.
fetchStatus_FailedAsPending(resp) ==
    IF resp.threw
        THEN [ok |-> FALSE, status |-> "none", unauthorized |-> FALSE,
              retryable |-> TRUE, error |-> resp.data]
    ELSE IF resp.ok
        THEN [ok |-> TRUE, status |-> IF resp.data = "failed" THEN "pending" ELSE resp.data,
              unauthorized |-> FALSE, retryable |-> FALSE, error |-> "undefined"]
    ELSE [ok |-> FALSE, status |-> "none",
          unauthorized |-> resp.status \in {401, 403, 404},
          retryable |-> resp.status >= 500, error |-> "undefined"]

\* A fetchStatus that reports every lifecycle status it does not know as failed.
fetchStatus_UnknownIsFailed(resp) ==
    IF resp.threw
        THEN [ok |-> FALSE, status |-> "none", unauthorized |-> FALSE,
              retryable |-> TRUE, error |-> resp.data]
    ELSE IF resp.ok
        THEN [ok |-> TRUE,
              status |-> IF resp.data \in {"pending", "completed"} THEN resp.data ELSE "failed",
              unauthorized |-> FALSE, retryable |-> FALSE, error |-> "undefined"]
    ELSE [ok |-> FALSE, status |-> "none",
          unauthorized |-> resp.status \in {401, 403, 404},
          retryable |-> resp.status >= 500, error |-> "undefined"]

\* fetchStatus: classification of the transport's answer.
fetchStatus(resp) ==
    IF resp.threw
        THEN [ok |-> FALSE, status |-> "none", unauthorized |-> FALSE,
              retryable |-> TRUE, error |-> resp.data]
    ELSE IF resp.ok
        THEN [ok |-> TRUE, status |-> resp.data, unauthorized |-> FALSE,
              retryable |-> FALSE, error |-> "undefined"]
    ELSE IF resp.status = 401 \/ resp.status = 403
        THEN [ok |-> FALSE, status |-> "none", unauthorized |-> TRUE,
              retryable |-> FALSE, error |-> "undefined"]
    ELSE IF resp.status = 404
        THEN [ok |-> FALSE, status |-> "none", unauthorized |-> TRUE,
              retryable |-> FALSE, error |-> "undefined"]
    ELSE IF resp.status >= 500
        THEN [ok |-> FALSE, status |-> "none", unauthorized |-> FALSE,
              retryable |-> TRUE, error |-> "undefined"]
    ELSE [ok |-> FALSE, status |-> "none", unauthorized |-> FALSE,
          retryable |-> FALSE, error |-> "undefined"]

\* A fetchTask without the 404 branch.
fetchTask_404IsFetchError(resp, by) ==
    IF resp.threw THEN TransportError(by)
    ELSE IF resp.ok THEN TaskOutcome(resp.data, by)
    ELSE IF resp.status = 401 \/ resp.status = 403 THEN TaskAsyncUnauthorizedError(by)
    ELSE TaskAsyncTaskFetchError(resp.status, by)

\* A fetchTask that returns response.data without looking at response.ok.
fetchTask_AnyAnswerIsData(resp, by) ==
    IF resp.threw THEN TransportError(by)
    ELSE TaskOutcome(resp.data, by)

\* fetchTask: the outcome of the full fetch.
fetchTask(resp, by) ==
    IF resp.threw THEN TransportError(by)
    ELSE IF resp.ok THEN TaskOutcome(resp.data, by)
    ELSE IF resp.status = 401 \/ resp.status = 403 THEN TaskAsyncUnauthorizedError(by)
    ELSE IF resp.status = 404 THEN TaskAsyncUnauthorizedError(by)
    ELSE TaskAsyncTaskFetchError(resp.status, by)

\* A toTask that polls on every call, without looking at the stored promise.
NeedsPolling_Always == TRUE

\* A toTask that reuses only a settled result, not the promise in flight.
NeedsPolling_UnlessSettled == completionPromise = "null" \/ pc # "done"

\* toTask: if (!this._completionPromise)
NeedsPolling == completionPromise = "null"

\* A timeout check that lets the exact deadline pass.
TimedOut_Strict(e) == e > POLLING_TIMEOUT_MS

\* pollUntilCompleted: if (elapsed >= POLLING_TIMEOUT_MS)
TimedOut(e) == e >= POLLING_TIMEOUT_MS

\* A loop that forgets to reset the counter.
RetryCountAfterOk_Kept(rc) == rc

\* pollUntilCompleted: retryCount = 0 after result.ok
RetryCountAfterOk(rc) == 0

\* A fallback test that forgets the flag.
CanFallBack_IgnoresFlag(fb) == publicAccessToken # "undefined"

\* A fallback that is taken on every unauthorized answer.
CanFallBack_Always(fb) == TRUE

\* pollUntilCompleted: if (this._access.publicAccessToken && !useApiKeyFallback)
CanFallBack(fb) == publicAccessToken # "undefined" /\ ~fb

\* A loop that keeps the previous error when the failure carries none:
\* lastError = result.error ?? lastError.
LastErrorAfter_KeepsPrevious(prev, err) == IF err = "undefined" THEN prev ELSE err

\* pollUntilCompleted: lastError = result.error
LastErrorAfter(prev, err) == err

\* A cap test that is off by one.
RetriesExhausted_Late(rc) == rc > MAX_RETRY_COUNT

\* pollUntilCompleted: if (retryCount >= MAX_RETRY_COUNT)
RetriesExhausted(rc) == rc >= MAX_RETRY_COUNT

\* A fast phase that still includes the 12th second's end.
baseInterval_Inclusive(e) ==
    IF e <= FAST_POLLING_DURATION_MS
        THEN FAST_POLLING_INTERVAL_MS ELSE SLOW_POLLING_INTERVAL_MS

\* pollUntilCompleted: baseInterval
baseInterval(e) ==
    IF e < FAST_POLLING_DURATION_MS
        THEN FAST_POLLING_INTERVAL_MS ELSE SLOW_POLLING_INTERVAL_MS

\* pollUntilCompleted: remainingTime
remainingTime(e) == POLLING_TIMEOUT_MS - e

\* A sleep that is not cut to the remaining time.
WaitTimeOf_Unclipped(iv, e) == iv

\* pollUntilCompleted: waitTime = Math.min(interval, remainingTime)
WaitTimeOf(iv, e) == Min(iv, remainingTime(e))

\* The class of a status response, read off the transport's answer itself.
ClassOf(resp) ==
    IF resp.threw THEN "retryable"
    ELSE IF resp.ok THEN
        (IF resp.data \in {"completed", "failed"} THEN resp.data ELSE "pending")
    ELSE IF resp.status \in {401, 403, 404} THEN "unauthorized"
    ELSE IF resp.status >= 500 THEN "retryable"
    ELSE "other"

\* What the getters `id` and `access` return; NoRead before any read.
NoRead == [id |-> "", access |-> ""]
id == TaskId
access == [publicAccessToken |-> publicAccessToken]

\* No answer classified on its own; no second handle.
NoClassified == [resp |-> NoResponse, result |-> "none"]
NoHandle == [pc |-> "none"]

\* ---------------------------------------------------------------------- Init
\* A scripted server (as the mocked client.get of the tests): a retryable
\* failures, one pending, b retryable failures, then completed.
NoPlan == [a |-> 0, b |-> 0]

Init ==
    /\ now = Epoch
    /\ publicAccessToken \in {"pat", "undefined"}
    /\ completionPromise = "null"
    /\ call = [c \in Callers |-> "idle"]
    /\ seen = [c \in Callers |-> NoOutcome]
    /\ pc = "idle"
    /\ outcome = NoOutcome
    /\ startTime = 0 /\ elapsed = 0 /\ retryCount = 0
    /\ useApiKeyFallback = FALSE /\ lastError = "undefined"
    /\ interval = 0 /\ waitTime = 0
    /\ loopsStarted = 0 /\ nStatus = 0 /\ nFetch = 0 /\ inFlight = 0
    /\ iterations = 0 /\ immediateRetries = 0
    /\ lastEvent = "none" /\ lastClass = "none" /\ failRun = 0
    /\ allPending = TRUE
    /\ lastAuth = "none"
    /\ plan = NoPlan
    /\ fetched = NoResponse
    /\ mode = "none" /\ gen = "direct" /\ read = NoRead
    /\ allOther = TRUE /\ lastThrown = "undefined"
    /\ classified = NoClassified /\ cur = 1 /\ other = NoHandle

\* ------------------------------------------------------- pieces of the loop
\* The promise settles with o while a network call returns.
Throw(o) ==
    /\ pc' = "done"
    /\ outcome' = o
    /\ inFlight' = inFlight - 1
    /\ UNCHANGED <<elapsed, interval, waitTime, nStatus, nFetch, iterations,
                   immediateRetries, lastAuth>>

\* The top of while (true): elapsed, the timeout check, and the status check
\* issued by fetchStatus(fb).  t is Date.now(), st the start time, fl the
\* calls in flight, imm whether no sleep separates it from the last check.
Iterate(t, st, fb, fl, imm, by) ==
    /\ elapsed' = t - st
    /\ iterations' = iterations + 1
    /\ IF TimedOut(t - st)
         THEN /\ pc' = "done"
              /\ outcome' = TaskAsyncTimeoutError(by)
              /\ inFlight' = fl
              /\ UNCHANGED <<nStatus, immediateRetries, lastAuth>>
         ELSE /\ pc' = "awaitStatus"
              /\ nStatus' = nStatus + 1
              /\ inFlight' = fl + 1
              /\ immediateRetries' = immediateRetries + (IF imm THEN 1 ELSE 0)
              /\ lastAuth' = getAuthHeaders(accessToken(fb))
              /\ UNCHANGED outcome

\* A loop body that backs off: the interval grows with the failure count.
Sleep_Backoff(jitter) ==
    /\ pc' = "sleeping"
    /\ interval' = (baseInterval(elapsed) + jitter) * (1 + retryCount)
    /\ waitTime' = WaitTimeOf((baseInterval(elapsed) + jitter) * (1 + retryCount), elapsed)
    /\ inFlight' = inFlight - 1
    /\ UNCHANGED <<outcome, elapsed, nStatus, nFetch, iterations,
                   immediateRetries, lastAuth>>

\* The end of the loop body: interval, waitTime and await this.sleep(waitTime).
Sleep(jitter) ==
    /\ pc' = "sleeping"
    /\ interval' = baseInterval(elapsed) + jitter
    /\ waitTime' = WaitTimeOf(baseInterval(elapsed) + jitter, elapsed)
    /\ inFlight' = inFlight - 1
    /\ UNCHANGED <<outcome, elapsed, nStatus, nFetch, iterations,
                   immediateRetries, lastAuth>>

\* A fetchTask that passes the same override as fetchStatus does.
StartFetch_WithToken ==
    /\ pc' = "awaitFetch"
    /\ nFetch' = nFetch + 1
    /\ inFlight' = (inFlight - 1) + 1
    /\ lastAuth' = getAuthHeaders(accessToken(useApiKeyFallback))
    /\ UNCHANGED <<outcome, elapsed, interval, waitTime, nStatus, iterations,
                   immediateRetries>>

\* const taskData = await this.fetchTask(): client.get without override.
StartFetch ==
    /\ pc' = "awaitFetch"
    /\ nFetch' = nFetch + 1
    /\ inFlight' = (inFlight - 1) + 1
    /\ lastAuth' = getAuthHeaders("undefined")
    /\ UNCHANGED <<outcome, elapsed, interval, waitTime, nStatus, iterations,
                   immediateRetries>>

\* private async pollUntilCompleted(), up to its first await.
pollUntilCompleted ==
    /\ startTime' = now
    /\ retryCount' = 0
    /\ useApiKeyFallback' = FALSE
    /\ lastError' = "undefined"
    /\ loopsStarted' = loopsStarted + 1
    /\ Iterate(now, now, FALSE, inFlight, FALSE, loopsStarted + 1)
    /\ UNCHANGED <<interval, waitTime, nFetch>>

\* ------------------------------------------------------------------- actions
\* Caller c calls toTask() and awaits the returned promise.
toTask(c) ==
    /\ call[c] = "idle"
    /\ call' = [call EXCEPT ![c] = "waiting"]
    /\ IF NeedsPolling
         THEN /\ completionPromise' = "promise"
              /\ pollUntilCompleted
         ELSE UNCHANGED <<completionPromise, pc, outcome, startTime, elapsed,
                          retryCount, useApiKeyFallback, lastError, interval,
                          waitTime, loopsStarted, nStatus, nFetch, inFlight,
                          iterations, immediateRetries, lastAuth>>
    /\ UNCHANGED <<now, publicAccessToken, seen, lastEvent, lastClass, failRun,
                   allPending, plan, fetched, mode, gen, read, allOther, lastThrown,
                   classified, cur, other>>

\* The latency of the status check in flight: one of the first ColdPolls checks
\* may hang; otherwise the first MaxFastPolls checks are answered at once, the
\* next MaxStalls stall, and the rest do either.
ServerPace(lat) ==
    \/ lat = HangLatency /\ nStatus <= ColdPolls
    \/ IF nStatus <= MaxFastPolls THEN lat = 0
       ELSE IF nStatus <= MaxFastPolls + MaxStalls THEN lat = SlowLatency
       ELSE lat \in {0, SlowLatency}

\* Callers are numbered in the order of their first call.
InOrder(c) == \A d \in Callers : d < c => call[d] # "idle"

\* The status check returns resp after lat ms; the loop runs to its next await.
StatusReturn(resp, lat, jitter) ==
    /\ pc = "awaitStatus"
    /\ now' = now + lat
    /\ lastEvent' = "status"
    /\ lastClass' = ClassOf(resp)
    /\ failRun' = IF ClassOf(resp) = "retryable" THEN failRun + 1
                  ELSE IF ClassOf(resp) \in {"pending", "completed", "failed"} THEN 0
                  ELSE failRun
    /\ allPending' = (allPending /\ ClassOf(resp) = "pending")
    /\ allOther' = (allOther /\ ClassOf(resp) = "other")
    /\ lastThrown' = IF resp.threw THEN resp.data ELSE "undefined"
    /\ LET result == fetchStatus(resp) IN
       IF result.ok THEN
            /\ retryCount' = RetryCountAfterOk(retryCount)
            /\ UNCHANGED <<useApiKeyFallback, lastError>>
            /\ IF result.status = "completed" THEN StartFetch
               ELSE IF result.status = "failed"
                    THEN Throw(TaskAsyncTaskFailedError(loopsStarted))
               ELSE Sleep(jitter)
       ELSE IF result.unauthorized THEN
            /\ UNCHANGED <<retryCount, lastError>>
            /\ IF CanFallBack(useApiKeyFallback)
                 THEN /\ useApiKeyFallback' = TRUE
                      /\ Iterate(now + lat, startTime, TRUE, inFlight - 1, TRUE,
                                 loopsStarted)
                      /\ UNCHANGED <<interval, waitTime, nFetch>>
                 ELSE /\ UNCHANGED useApiKeyFallback
                      /\ Throw(TaskAsyncUnauthorizedError(loopsStarted))
       ELSE IF result.retryable THEN
            /\ retryCount' = retryCount + 1
            /\ lastError' = LastErrorAfter(lastError, result.error)
            /\ UNCHANGED useApiKeyFallback
            /\ IF RetriesExhausted(retryCount + 1)
                 THEN Throw(TaskAsyncFetchError(
                                LastErrorAfter(lastError, result.error), loopsStarted))
                 ELSE Sleep(jitter)
       ELSE /\ UNCHANGED <<retryCount, lastError, useApiKeyFallback>>
            /\ Sleep(jitter)
    /\ UNCHANGED <<publicAccessToken, completionPromise, call, seen, startTime,
                   loopsStarted, plan, fetched, mode, gen, read,
                   classified, cur, other>>

\* A loop whose fallback flag is declared inside while (true): every iteration
\* after a sleep starts with the flag unset.
SleepEnd_ResetsFallback ==
    /\ pc = "sleeping"
    /\ now' = now + waitTime
    /\ lastEvent' = "sleep"
    /\ lastClass' = "none"
    /\ lastThrown' = "undefined"
    /\ interval' = 0
    /\ waitTime' = 0
    /\ useApiKeyFallback' = FALSE
    /\ Iterate(now + waitTime, startTime, FALSE, inFlight, FALSE, loopsStarted)
    /\ UNCHANGED <<publicAccessToken, completionPromise, call, seen, startTime,
                   retryCount, lastError, loopsStarted,
                   nFetch, failRun, allPending, plan, fetched, mode, gen, read,
                   allOther, classified, cur, other>>

\* The timer of this.sleep(waitTime) fires; the next iteration begins.
SleepEnd ==
    /\ pc = "sleeping"
    /\ now' = now + waitTime
    /\ lastEvent' = "sleep"
    /\ lastClass' = "none"
    /\ lastThrown' = "undefined"
    /\ interval' = 0
    /\ waitTime' = 0
    /\ Iterate(now + waitTime, startTime, useApiKeyFallback, inFlight, FALSE,
               loopsStarted)
    /\ UNCHANGED <<publicAccessToken, completionPromise, call, seen, startTime,
                   retryCount, useApiKeyFallback, lastError, loopsStarted,
                   nFetch, failRun, allPending, plan, fetched, mode, gen, read,
                   allOther, classified, cur, other>>

\* A loop that goes back to polling when the full fetch fails.
FetchReturn_RetriesOnError(resp, lat) ==
    /\ pc = "awaitFetch"
    /\ now' = now + lat
    /\ lastEvent' = "fetch"
    /\ fetched' = resp
    /\ inFlight' = inFlight - 1
    /\ IF ~resp.threw /\ resp.ok
         THEN /\ pc' = "done"
              /\ outcome' = fetchTask(resp, loopsStarted)
              /\ UNCHANGED <<interval, waitTime>>
         ELSE /\ pc' = "sleeping"
              /\ interval' = baseInterval(elapsed)
              /\ waitTime' = baseInterval(elapsed)
              /\ UNCHANGED outcome
    /\ UNCHANGED <<publicAccessToken, completionPromise, call, seen, startTime,
                   elapsed, retryCount, useApiKeyFallback, lastError,
                   loopsStarted, nStatus, nFetch, iterations,
                   immediateRetries, lastClass, failRun, allPending, lastAuth,
                   plan, mode, gen, read, allOther, lastThrown,
                   classified, cur, other>>

\* The full fetch returns resp after lat ms: return new Task(taskData) or throw.
FetchReturn(resp, lat) ==
    /\ pc = "awaitFetch"
    /\ now' = now + lat
    /\ lastEvent' = "fetch"
    /\ pc' = "done"
    /\ outcome' = fetchTask(resp, loopsStarted)
    /\ fetched' = resp
    /\ inFlight' = inFlight - 1
    /\ UNCHANGED <<publicAccessToken, completionPromise, call, seen, startTime,
                   elapsed, retryCount, useApiKeyFallback, lastError, interval,
                   waitTime, loopsStarted, nStatus, nFetch, iterations,
                   immediateRetries, lastClass, failRun, allPending, lastAuth,
                   plan, mode, gen, read, allOther, lastThrown,
                   classified, cur, other>>

\* Caller c, awaiting the completion promise, sees it settled.
Observe(c) ==
    /\ call[c] = "waiting"
    /\ pc = "done"
    /\ call' = [call EXCEPT ![c] = "got"]
    /\ seen' = [seen EXCEPT ![c] = outcome]
    /\ UNCHANGED <<now, publicAccessToken, completionPromise, pc, outcome,
                   startTime, elapsed, retryCount, useApiKeyFallback, lastError,
                   interval, waitTime, loopsStarted, nStatus, nFetch, inFlight,
                   iterations, immediateRetries, lastEvent, lastClass, failRun,
                   allPending, lastAuth, plan, fetched, mode, gen, read, allOther, lastThrown,
                   classified, cur, other>>

Next ==
    \/ \E c \in Callers : InOrder(c) /\ toTask(c)
    \/ \E resp \in StatusResponses, lat \in Latencies, jitter \in Jitters :
            ServerPace(lat) /\ StatusReturn(resp, lat, jitter)
    \/ SleepEnd
    \/ \E resp \in FetchResponses, lat \in Latencies : FetchReturn(resp, lat)
    \/ \E c \in Callers : Observe(c)

Spec == Init /\ [][Next]_vars

\* Timers fire and network calls return: the loop is never suspended forever.
LoopStep ==
    \/ \E resp \in StatusResponses, lat \in Latencies, jitter \in Jitters :
            ServerPace(lat) /\ StatusReturn(resp, lat, jitter)
    \/ SleepEnd
    \/ \E resp \in FetchResponses, lat \in Latencies : FetchReturn(resp, lat)

FairSpec == Spec /\ WF_vars(LoopStep)

\* ------------------------------------------------------ the scripted server
\* The test "resets retry count after successful poll", for every pair of runs
\* of fewer than MAX_RETRY_COUNT failures.
RetryableResponses == {Threw, Http(500, "error"), Http(503, "error")}

Plans == [a : 1..(MAX_RETRY_COUNT - 1), b : 1..(MAX_RETRY_COUNT - 1)]

\* The answers the plan allows to status check number k.
Scripted(k) ==
    IF k <= plan.a THEN RetryableResponses
    ELSE IF k = plan.a + 1 THEN {Http(200, "pending")}
    ELSE IF k <= plan.a + plan.b + 1 THEN RetryableResponses
    ELSE {Http(200, "completed")}

InitScripted ==
    /\ now = Epoch
    /\ publicAccessToken \in {"pat", "undefined"}
    /\ completionPromise = "null"
    /\ call = [c \in Callers |-> "idle"]
    /\ seen = [c \in Callers |-> NoOutcome]
    /\ pc = "idle"
    /\ outcome = NoOutcome
    /\ startTime = 0 /\ elapsed = 0 /\ retryCount = 0
    /\ useApiKeyFallback = FALSE /\ lastError = "undefined"
    /\ interval = 0 /\ waitTime = 0
    /\ loopsStarted = 0 /\ nStatus = 0 /\ nFetch = 0 /\ inFlight = 0
    /\ iterations = 0 /\ immediateRetries = 0
    /\ lastEvent = "none" /\ lastClass = "none" /\ failRun = 0
    /\ allPending = TRUE
    /\ lastAuth = "none"
    /\ plan \in Plans
    /\ fetched = NoResponse
    /\ mode = "none" /\ gen = "direct" /\ read = NoRead
    /\ allOther = TRUE /\ lastThrown = "undefined"
    /\ classified = NoClassified /\ cur = 1 /\ other = NoHandle

NextScripted ==
    \/ toTask(1)
    \/ \E resp \in Scripted(nStatus), jitter \in Jitters :
            StatusReturn(resp, 0, jitter)
    \/ SleepEnd
    \/ FetchReturn(Http(200, TaskId), 0)
    \/ Observe(1)

SpecScripted == InitScripted /\ [][NextScripted]_vars

\* ------------------------------------------------- the schedule of the loop
\* A server that never completes the task: it answers pending, 400 and 500, or
\* the call throws one of two Error objects.  Its first ColdPolls answers may be
\* late, by latencies that bring the loop to the 12 s phase boundary and to the
\* last millisecond of the budget; it answers MaxSchedulePolls status checks.
MaxSchedulePolls == 7

ScheduleLatencies == {0, 1999, 2000, 297499}

\* Samples of Math.random() * 500, up to the largest whole number below 500.
ScheduleJitters == {0, 250, 499}

ScheduleResponses ==
    {Threw, ThrewAgain, Http(200, "pending"), Http(400, "error"), Http(500, "error")}

SchedulePace(lat) == IF nStatus <= ColdPolls THEN lat \in ScheduleLatencies ELSE lat = 0

NextSchedule ==
    \/ toTask(1)
    \/ \E resp \in ScheduleResponses, lat \in ScheduleLatencies, jitter \in ScheduleJitters :
            /\ nStatus <= MaxSchedulePolls
            /\ SchedulePace(lat)
            /\ StatusReturn(resp, lat, jitter)
    \/ SleepEnd
    \/ Observe(1)

SpecSchedule == Init /\ [][NextSchedule]_vars

\* ------------------------------------------------------------ Mynth.generate
\* opts.mode of a generate() call; "undefined" when the caller gives none.
Modes == {"undefined", "sync", "async"}

\* A generate() whose default mode is "async".
modeOrDefault_Async(m) == IF m = "undefined" THEN "async" ELSE m

\* generate: const mode = opts.mode ?? "sync"
modeOrDefault(m) == IF m = "undefined" THEN "sync" ELSE m

\* A generate() that never hands out the handle: it always awaits toTask().
ReturnsHandle_Never(m) == FALSE

\* generate: if (mode === "async") return taskAsync
ReturnsHandle(m) == modeOrDefault(m) = "async"

\* What `await this.client.post(GENERATE_IMAGE_PATH, request)` produces: a
\* thrown error (fetch rejected, or MynthAPIError on a non-ok answer), or the
\* json {taskId, access?}.
PostResponses ==
    {[threw |-> TRUE, taskId |-> "", pat |-> "undefined"]}
    \cup {[threw |-> FALSE, taskId |-> TaskId, pat |-> t] : t \in {"pat", "undefined"}}

\* The state of the handle's resolution and of its callers.
resolution == <<completionPromise, call, seen, pc, outcome, startTime, elapsed,
                retryCount, useApiKeyFallback, lastError, interval, waitTime,
                loopsStarted, nStatus, nFetch, inFlight, iterations,
                immediateRetries, lastEvent, lastClass, failRun, allPending,
                lastAuth, plan, fetched, allOther, lastThrown>>

\* No generate() call yet, and no handle.
InitGenerate ==
    /\ now = Epoch
    /\ publicAccessToken = "undefined"
    /\ completionPromise = "null"
    /\ call = [c \in Callers |-> "idle"]
    /\ seen = [c \in Callers |-> NoOutcome]
    /\ pc = "idle"
    /\ outcome = NoOutcome
    /\ startTime = 0 /\ elapsed = 0 /\ retryCount = 0
    /\ useApiKeyFallback = FALSE /\ lastError = "undefined"
    /\ interval = 0 /\ waitTime = 0
    /\ loopsStarted = 0 /\ nStatus = 0 /\ nFetch = 0 /\ inFlight = 0
    /\ iterations = 0 /\ immediateRetries = 0
    /\ lastEvent = "none" /\ lastClass = "none" /\ failRun = 0
    /\ allPending = TRUE
    /\ lastAuth = "none"
    /\ plan = NoPlan
    /\ fetched = NoResponse
    /\ mode = "none" /\ gen = "idle" /\ read = NoRead
    /\ allOther = TRUE /\ lastThrown = "undefined"
    /\ classified = NoClassified /\ cur = 1 /\ other = NoHandle

\* generate(request, {mode: m}), up to `await this.client.post(...)`.
generate(m) ==
    /\ gen = "idle"
    /\ mode' = m
    /\ gen' = "posting"
    /\ UNCHANGED <<now, publicAccessToken, read, resolution, classified, cur, other>>

\* client.post returns r after lat ms; generate rejects, or builds the handle:
\* new TaskAsync(json.taskId, {client, pat: json.access?.publicAccessToken}).
PostReturn(r, lat) ==
    /\ gen = "posting"
    /\ now' = now + lat
    /\ IF r.threw
         THEN gen' = "failed" /\ UNCHANGED publicAccessToken
         ELSE gen' = "made" /\ publicAccessToken' = r.pat
    /\ UNCHANGED <<mode, read, resolution, classified, cur, other>>

\* generate, after the constructor: it returns the handle in mode "async", and
\* otherwise returns taskAsync.toTask(), whose outcome becomes its own (it is
\* caller 1 of the handle).  No await separates this from the constructor.
generateReturn ==
    /\ gen = "made"
    /\ IF ReturnsHandle(mode)
         THEN /\ gen' = "returned"
              /\ UNCHANGED <<now, publicAccessToken, mode, read, resolution, classified, cur, other>>
         ELSE toTask(1)

\* The holder of the handle reads handle.id and handle.access.
ReadHandle ==
    /\ gen = "returned"
    /\ read' = [id |-> id, access |-> access.publicAccessToken]
    /\ UNCHANGED <<now, publicAccessToken, mode, gen, resolution, classified, cur, other>>

NextGenerate ==
    \/ \E m \in Modes : generate(m)
    \/ \E r \in PostResponses, lat \in {0, SlowLatency} : PostReturn(r, lat)
    \/ generateReturn
    \/ ReadHandle
    \/ gen = "returned" /\ toTask(1)
    \/ \E resp \in StatusResponses, lat \in Latencies, jitter \in Jitters :
            ServerPace(lat) /\ StatusReturn(resp, lat, jitter)
    \/ SleepEnd
    \/ \E resp \in FetchResponses, lat \in Latencies : FetchReturn(resp, lat)
    \/ Observe(1)

SpecGenerate == InitGenerate /\ [][NextGenerate]_vars

\* ------------------------------------------------- fetchStatus, on its own
\* Every answer client.get can give to a status check: a thrown error, or an
\* HTTP status from 200 to 599 with, when it is a success, a lifecycle status.
AllStatusResponses ==
    {Threw, ThrewAgain}
    \cup {Http(s, d) : s \in 200..299, d \in {"pending", "processing", "completed", "failed"}}
    \cup {Http(s, "error") : s \in 300..599}

\* fetchStatus is applied to resp.
Classify(resp) ==
    /\ classified' = [resp |-> resp, result |-> fetchStatus(resp)]
    /\ UNCHANGED <<now, publicAccessToken, mode, gen, read, resolution, cur, other>>

NextClassify == \E resp \in AllStatusResponses : Classify(resp)

SpecClassify == Init /\ [][NextClassify]_vars

\* --------------------------------------------------------------- two handles
\* Two TaskAsync objects on one client, each resolved by its own
\* pollUntilCompleted call.  The variables hold the state of the handle whose
\* loop runs the next step (its instance fields, the locals of its call, and
\* the clock reading of its last step); `other` holds the state of the handle
\* whose loop is suspended meanwhile.  Each handle answers MaxTwoPolls status
\* checks.
MaxTwoPolls == 3

TwoResponses ==
    {Threw, Http(200, "pending"), Http(200, "completed"), Http(401, "error")}

\* The state of the handle that runs.
Handle ==
    [now |-> now, publicAccessToken |-> publicAccessToken,
     completionPromise |-> completionPromise, call |-> call, seen |-> seen,
     pc |-> pc, outcome |-> outcome, startTime |-> startTime,
     elapsed |-> elapsed, retryCount |-> retryCount,
     useApiKeyFallback |-> useApiKeyFallback, lastError |-> lastError,
     interval |-> interval, waitTime |-> waitTime,
     loopsStarted |-> loopsStarted, nStatus |-> nStatus, nFetch |-> nFetch,
     inFlight |-> inFlight, iterations |-> iterations,
     immediateRetries |-> immediateRetries, lastEvent |-> lastEvent,
     lastClass |-> lastClass, failRun |-> failRun, allPending |-> allPending,
     lastAuth |-> lastAuth, fetched |-> fetched, allOther |-> allOther,
     lastThrown |-> lastThrown]

\* A counter of failures that is one variable of the module, not a local of
\* each pollUntilCompleted call: the handle that resumes finds the count the
\* other handle left.
Resume_SharedRetryCount(h) ==
    /\ now' = h.now /\ publicAccessToken' = h.publicAccessToken
    /\ completionPromise' = h.completionPromise
    /\ call' = h.call /\ seen' = h.seen
    /\ pc' = h.pc /\ outcome' = h.outcome
    /\ startTime' = h.startTime /\ elapsed' = h.elapsed
    /\ retryCount' = retryCount
    /\ useApiKeyFallback' = h.useApiKeyFallback /\ lastError' = h.lastError
    /\ interval' = h.interval /\ waitTime' = h.waitTime
    /\ loopsStarted' = h.loopsStarted
    /\ nStatus' = h.nStatus /\ nFetch' = h.nFetch /\ inFlight' = h.inFlight
    /\ iterations' = h.iterations /\ immediateRetries' = h.immediateRetries
    /\ lastEvent' = h.lastEvent /\ lastClass' = h.lastClass
    /\ failRun' = h.failRun /\ allPending' = h.allPending
    /\ lastAuth' = h.lastAuth /\ fetched' = h.fetched
    /\ allOther' = h.allOther /\ lastThrown' = h.lastThrown

\* The loop of handle h is resumed: it finds its fields and its locals as it
\* left them (startTime, retryCount, useApiKeyFallback and lastError are
\* declared inside pollUntilCompleted, _completionPromise and _access on the
\* instance).
Resume(h) ==
    /\ now' = h.now /\ publicAccessToken' = h.publicAccessToken
    /\ completionPromise' = h.completionPromise
    /\ call' = h.call /\ seen' = h.seen
    /\ pc' = h.pc /\ outcome' = h.outcome
    /\ startTime' = h.startTime /\ elapsed' = h.elapsed
    /\ retryCount' = h.retryCount
    /\ useApiKeyFallback' = h.useApiKeyFallback /\ lastError' = h.lastError
    /\ interval' = h.interval /\ waitTime' = h.waitTime
    /\ loopsStarted' = h.loopsStarted
    /\ nStatus' = h.nStatus /\ nFetch' = h.nFetch /\ inFlight' = h.inFlight
    /\ iterations' = h.iterations /\ immediateRetries' = h.immediateRetries
    /\ lastEvent' = h.lastEvent /\ lastClass' = h.lastClass
    /\ failRun' = h.failRun /\ allPending' = h.allPending
    /\ lastAuth' = h.lastAuth /\ fetched' = h.fetched
    /\ allOther' = h.allOther /\ lastThrown' = h.lastThrown

\* The event loop turns to the other handle: the next step is its.
Switch ==
    /\ cur' = 3 - cur
    /\ other' = Handle
    /\ Resume(other)
    /\ UNCHANGED <<plan, mode, gen, read, classified>>

\* Two handles nobody has resolved yet, each with or without a public token.
IdleHandle ==
    [now |-> Epoch, publicAccessToken |-> "undefined",
     completionPromise |-> "null", call |-> [c \in Callers |-> "idle"],
     seen |-> [c \in Callers |-> NoOutcome],
     pc |-> "idle", outcome |-> NoOutcome, startTime |-> 0,
     elapsed |-> 0, retryCount |-> 0,
     useApiKeyFallback |-> FALSE, lastError |-> "undefined",
     interval |-> 0, waitTime |-> 0,
     loopsStarted |-> 0, nStatus |-> 0, nFetch |-> 0,
     inFlight |-> 0, iterations |-> 0,
     immediateRetries |-> 0, lastEvent |-> "none",
     lastClass |-> "none", failRun |-> 0, allPending |-> TRUE,
     lastAuth |-> "none", fetched |-> NoResponse, allOther |-> TRUE,
     lastThrown |-> "undefined"]

InitTwo ==
    /\ now = Epoch
    /\ publicAccessToken \in {"pat", "undefined"}
    /\ completionPromise = "null"
    /\ call = [c \in Callers |-> "idle"]
    /\ seen = [c \in Callers |-> NoOutcome]
    /\ pc = "idle"
    /\ outcome = NoOutcome
    /\ startTime = 0 /\ elapsed = 0 /\ retryCount = 0
    /\ useApiKeyFallback = FALSE /\ lastError = "undefined"
    /\ interval = 0 /\ waitTime = 0
    /\ loopsStarted = 0 /\ nStatus = 0 /\ nFetch = 0 /\ inFlight = 0
    /\ iterations = 0 /\ immediateRetries = 0
    /\ lastEvent = "none" /\ lastClass = "none" /\ failRun = 0
    /\ allPending = TRUE
    /\ lastAuth = "none"
    /\ plan = NoPlan
    /\ fetched = NoResponse
    /\ mode = "none" /\ gen = "direct" /\ read = NoRead
    /\ allOther = TRUE /\ lastThrown = "undefined"
    /\ classified = NoClassified /\ cur = 1
    /\ other \in {[IdleHandle EXCEPT !.publicAccessToken = p] : p \in {"pat", "undefined"}}

NextTwo ==
    \/ toTask(1)
    \/ \E resp \in TwoResponses :
            nStatus <= MaxTwoPolls /\ StatusReturn(resp, 0, 0)
    \/ SleepEnd
    \/ \E resp \in {Http(200, TaskId), Http(500, "error")} : FetchReturn(resp, 0)
    \/ Observe(1)
    \/ Switch

SpecTwo == InitTwo /\ [][NextTwo]_vars

\* ==================================================================== claims
\* Network calls that have returned.
Returned == nStatus + nFetch - inFlight

\* This step is caller c's toTask() on a handle whose promise is already set.
Joins(c) ==
    /\ completionPromise # "null"
    /\ call[c] = "idle"
    /\ call'[c] = "waiting"

Suspended == pc \in {"awaitStatus", "sleeping", "awaitFetch"}

\* C1: every toTask() call on the handle observes the one outcome of the one
\* pollUntilCompleted run (the same Task or the same error), and a call after
\* the first issues no status check and no full fetch, whether it comes while
\* the loop runs or after it has settled, with a success or with a failure.
C1_SameOutcomeOnePoll ==
    /\ [](loopsStarted <= 1)
    /\ [](\A c \in Callers : call[c] = "got" => seen[c] = outcome /\ seen[c].by = 1)
    /\ [][\A c \in Callers : Joins(c) =>
              UNCHANGED <<loopsStarted, nStatus, nFetch, inFlight, pc, outcome>>]_vars

\* Every caller was answered with the same FetchError, and the handle issued
\* the 7 status checks of one run.
C1_Witness ==
    /\ \A c \in Callers : call[c] = "got" /\ seen[c] = outcome
    /\ outcome.kind = "FetchError"
    /\ nStatus = MAX_RETRY_COUNT /\ nFetch = 0

\* C2: at most one resolution loop runs per handle: a toTask() that arrives
\* while the loop is suspended at a network call or a sleep joins the attempt in
\* flight; it starts no loop and leaves the loop where it is.
C2_SingleFlight ==
    [][\A c \in Callers : (Suspended /\ call[c] = "idle" /\ call'[c] = "waiting") =>
            /\ loopsStarted' = loopsStarted /\ loopsStarted = 1
            /\ UNCHANGED <<pc, startTime, elapsed, retryCount, useApiKeyFallback,
                           nStatus, nFetch, inFlight, completionPromise>>]_vars

\* Two callers await the handle while its loop sleeps between two status checks.
C2_Witness ==
    /\ \A c \in Callers : call[c] = "waiting"
    /\ pc = "sleeping"
    /\ nStatus >= 2

\* C3: at most one network call (status check or full fetch) is in flight for
\* the handle in every reachable state.
C3_OneCallInFlight == inFlight \in {0, 1} /\ (inFlight = 1 <=> pc \in {"awaitStatus", "awaitFetch"})

\* A full fetch is in flight while every caller awaits the handle.
C3_Witness ==
    /\ \A c \in Callers : call[c] = "waiting"
    /\ pc = "awaitFetch" /\ inFlight = 1

\* This step is the return of the status check in flight, answered with class cls.
StatusAnswered(cls) ==
    /\ pc = "awaitStatus"
    /\ Returned' = Returned + 1
    /\ lastClass' = cls

Deadline == startTime + POLLING_TIMEOUT_MS

\* C4: when every status check reports pending, the resolution ends, and it
\* ends with Timeout: it does not poll forever.
C4_PendingTimesOut ==
    /\ []((pc = "done" /\ allPending) => outcome.kind = "Timeout")
    /\ ((loopsStarted = 1 /\ allPending) ~> (~allPending \/ outcome.kind = "Timeout"))

\* A resolution that saw only pending answers, more than the server answers at
\* once, has timed out.
C4_Witness ==
    /\ pc = "done" /\ allPending
    /\ outcome.kind = "Timeout"
    /\ nStatus > MaxFastPolls

\* C5: every sleep ends no later than the deadline (start time + 5 minutes),
\* whatever the latency of the status check before it, and a sleep that is cut
\* short ends exactly at the deadline.
C5_SleepEndsByDeadline ==
    pc = "sleeping" =>
        /\ now + waitTime <= Deadline
        /\ (waitTime < interval => now + waitTime = Deadline)

\* C6: an iteration that begins with elapsed >= 5 minutes ends the resolution
\* with Timeout and issues no status check, after a sleep as well as on the
\* immediate re-iteration after a credential fallback; a status check is only
\* ever in flight from an iteration that began within the budget.
C6_TimeoutAtIterationStart ==
    /\ [](pc = "awaitStatus" => elapsed < POLLING_TIMEOUT_MS)
    /\ [][(iterations' = iterations + 1 /\ now' - startTime' >= POLLING_TIMEOUT_MS) =>
            /\ pc' = "done" /\ outcome'.kind = "Timeout"
            /\ nStatus' = nStatus /\ nFetch' = nFetch /\ inFlight' = 0]_vars

\* The public token was answered unauthorized exactly at the deadline, and the
\* re-iteration that followed timed out instead of issuing the fallback check.
C6_Witness ==
    /\ outcome.kind = "Timeout"
    /\ lastEvent = "status" /\ lastClass = "unauthorized"
    /\ useApiKeyFallback
    /\ now - startTime = POLLING_TIMEOUT_MS

\* C7: the 7th retryable failure in a row (transport error or status >= 500,
\* no successful status check in between) fails the resolution with FetchError
\* at once: no sleep, no 8th status check, no full fetch.
C7_FetchErrorAtCap ==
    /\ [](failRun >= MAX_RETRY_COUNT =>
            /\ failRun = MAX_RETRY_COUNT
            /\ pc = "done" /\ outcome.kind = "FetchError"
            /\ lastEvent = "status" /\ nFetch = 0)
    /\ [][failRun' >= MAX_RETRY_COUNT /\ failRun < MAX_RETRY_COUNT =>
            nStatus' = nStatus /\ pc' = "done"]_vars

\* Seven failures in a row, the last a transport error, after an earlier
\* successful check; the resolution failed with FetchError.
C7_Witness ==
    /\ failRun = MAX_RETRY_COUNT
    /\ nStatus > MAX_RETRY_COUNT
    /\ outcome.kind = "FetchError" /\ outcome.cause = "Error"

\* C8: a successful status check resets the failure count to zero, so a
\* failures, one pending, b failures (a, b < 7), completed and a successful
\* full fetch resolve with the Task after a + b + 2 status checks and 1 fetch,
\* never with FetchError; e.g. 5, pending, 5, completed: 12 checks, 1 fetch.
C8_RetryCountReset ==
    /\ lastClass \in {"pending", "completed", "failed"} => retryCount = 0
    /\ outcome.kind # "FetchError"
    /\ pc = "done" =>
            /\ outcome.kind = "Task"
            /\ nStatus = plan.a + plan.b + 2
            /\ nFetch = 1

\* The run of the repository's test: 5 failures, pending, 5 failures, completed.
C8_Witness ==
    /\ plan = [a |-> 5, b |-> 5]
    /\ pc = "done" /\ outcome.kind = "Task"
    /\ nStatus = 12 /\ nFetch = 1

C10_UnauthorizedIsFatal ==
    [][(StatusAnswered("unauthorized")
            /\ (useApiKeyFallback \/ publicAccessToken = "undefined")) =>
            /\ pc' = "done" /\ outcome'.kind = "Unauthorized"
            /\ nStatus' = nStatus /\ nFetch' = nFetch /\ inFlight' = 0]_vars

\* Public token refused, then the default credential refused: Unauthorized
\* after two status checks.
C10_Witness ==
    /\ publicAccessToken = "pat" /\ useApiKeyFallback
    /\ outcome.kind = "Unauthorized"
    /\ nStatus = 2 /\ nFetch = 0

\* C11: a successful status check whose lifecycle status is failed, wherever it
\* comes in the sequence, fails the resolution with TaskFailed at once: no
\* sleep, no further status check and no full fetch follow.
C11_FailedIsFatal ==
    /\ [][StatusAnswered("failed") =>
            /\ pc' = "done" /\ outcome'.kind = "TaskFailed"
            /\ nStatus' = nStatus /\ nFetch' = nFetch /\ inFlight' = 0
            /\ iterations' = iterations]_vars
    /\ [](outcome.kind = "TaskFailed" =>
            pc = "done" /\ lastClass = "failed" /\ lastEvent = "status")

\* TaskFailed after a credential fallback, a transport error and sleeps.
C11_Witness ==
    /\ outcome.kind = "TaskFailed"
    /\ useApiKeyFallback /\ lastError = "Error"
    /\ nStatus >= 4 /\ nFetch = 0
    /\ now > startTime

\* The full fetch in flight returns in this step.
FetchAnswered == pc = "awaitFetch" /\ pc' # "awaitFetch"

\* C12: a full fetch answered 401, 403 or 404 fails the resolution with
\* Unauthorized, never with TaskFetchError; answered with another non-success
\* status it fails with TaskFetchError carrying that status; either way there is
\* exactly one full fetch and no status check follows it.
C12_FetchFailureClasses ==
    /\ [][FetchAnswered =>
            /\ pc' = "done"
            /\ nStatus' = nStatus /\ nFetch' = nFetch /\ nFetch = 1 /\ inFlight' = 0
            /\ (~fetched'.threw /\ ~fetched'.ok =>
                    IF fetched'.status \in {401, 403, 404}
                        THEN outcome'.kind = "Unauthorized"
                        ELSE /\ outcome'.kind = "TaskFetchError"
                             /\ outcome'.status = fetched'.status)]_vars
    /\ [](outcome.kind = "TaskFetchError" =>
            lastEvent = "fetch" /\ fetched.status \notin {401, 403, 404})

\* The status check said completed, the full fetch was answered 404, and the
\* resolution failed with Unauthorized.
C12_Witness ==
    /\ lastClass = "completed" /\ lastEvent = "fetch"
    /\ fetched.status = 404
    /\ outcome.kind = "Unauthorized"
    /\ nFetch = 1

\* C13: every failed resolution fails with one of the five classified error
\* kinds, whatever the two collaborators do, a transport error of the status
\* check or of the full fetch included.
C13_ClassifiedErrors ==
    (pc = "done" /\ outcome.kind # "Task") =>
        outcome.kind \in {"Timeout", "Unauthorized", "FetchError",
                          "TaskFetchError", "TaskFailed"}

\* C14: a resolution returns a Task only if its last status check was
\* successful with status completed and the one full fetch that followed it
\* was successful; a failure of a status check or of the fetch never does.
C14_NoErrorBecomesSuccess ==
    /\ outcome.kind = "Task" =>
            /\ pc = "done"
            /\ lastClass = "completed" /\ lastEvent = "fetch"
            /\ nFetch = 1
            /\ ~fetched.threw /\ fetched.ok
            /\ retryCount = 0 /\ failRun = 0
    /\ (pc = "done" /\ (lastClass # "completed" \/ fetched.threw \/ ~fetched.ok)) =>
            outcome.kind # "Task"

\* A Task returned by a resolution that met a transport error and a credential
\* fallback before its last, completed, status check.
C14_Witness ==
    /\ outcome.kind = "Task"
    /\ lastError = "Error" /\ useApiKeyFallback
    /\ nStatus >= 3 /\ nFetch = 1

\* C15 as stated: the returned Task has the id of the handle.
C15_TaskHasHandleId ==
    outcome.kind = "Task" => outcome.id = id

\* C15 as amended: the returned Task has the id of the record that the full
\* fetch, successful, was answered with; so it has the handle's id exactly when
\* the server answered with the record of that id.
C15_TaskHasFetchedId ==
    outcome.kind = "Task" =>
        /\ fetched.ok
        /\ outcome.id = fetched.data
        /\ (outcome.id = id <=> fetched.data = TaskId)

\* Pending, completed, and a full fetch answered with the handle's own record.
C15_Witness ==
    /\ outcome.kind = "Task"
    /\ fetched = Http(200, TaskId) /\ outcome.id = id
    /\ nStatus >= 2

\* C16: a status check carries the public access token as override exactly
\* when the handle has one and the fallback flag is not set; otherwise it
\* carries none and the transport's default (private) credential applies.
C16_StatusCredential ==
    pc = "awaitStatus" =>
        /\ lastAuth \in {"pat", "apiKey"}
        /\ (lastAuth = "pat" <=> (publicAccessToken = "pat" /\ ~useApiKeyFallback))
        /\ (lastAuth = "apiKey" <=> (publicAccessToken = "undefined" \/ useApiKeyFallback))

\* A later status check of a handle with token, after a sleep, with the token.
C16_Witness ==
    /\ pc = "awaitStatus" /\ lastAuth = "pat"
    /\ nStatus >= 2 /\ lastEvent = "sleep"

\* No toTask() call has been made on the handle.
NeverAwaited == \A c \in Callers : call[c] = "idle"

\* C17: polling is lazy: the constructor, the getters id and access, and
\* generate() in mode "async" issue no status check and no full fetch; the
\* first network call of a resolution is issued by the first toTask() call,
\* which in mode "async" comes only after generate() has returned the handle.
C17_LazyPolling ==
    /\ [](NeverAwaited =>
            /\ completionPromise = "null" /\ pc = "idle"
            /\ nStatus = 0 /\ nFetch = 0 /\ inFlight = 0)
    /\ [](mode = "async" /\ gen # "returned" => NeverAwaited)
    /\ [][(nStatus + nFetch = 0 /\ nStatus' + nFetch' > 0) =>
            /\ call[1] = "idle" /\ call'[1] = "waiting"
            /\ nStatus' = 1 /\ nFetch' = 0]_vars
    /\ [][(read' # read \/ gen' # gen) =>
            UNCHANGED <<completionPromise, pc, nStatus, nFetch, inFlight>>]_vars

\* generate() in mode "async" has returned the handle, after a slow POST; its
\* holder has read id and access; nothing has been polled.
C17_Witness ==
    /\ mode = "async" /\ gen = "returned"
    /\ read = [id |-> TaskId, access |-> "pat"]
    /\ now > Epoch
    /\ NeverAwaited /\ nStatus = 0 /\ nFetch = 0

\* generate() was called without mode or with mode "sync".
SyncCall == mode \in {"undefined", "sync"}

\* C18: generate() without mode, or with mode "sync", never returns the handle;
\* once the handle exists it settles only when the handle's resolution has
\* reached its terminal outcome, and with that outcome.
C18_SyncWaits ==
    SyncCall =>
        /\ gen # "returned"
        /\ read = NoRead
        /\ (call[1] = "got" =>
                /\ pc = "done" /\ outcome.kind # "none"
                /\ seen[1] = outcome)
        /\ (gen = "made" /\ pc # "done" => call[1] # "got")

\* generate() without mode settled with the Task, after several status checks.
C18_Witness ==
    /\ mode = "undefined" /\ gen = "made"
    /\ call[1] = "got" /\ seen[1].kind = "Task"
    /\ nStatus >= 3

\* C19: every started resolution reaches a terminal outcome, given that every
\* network call returns and every timer fires; the unslept retry after a
\* credential fallback happens at most once, and every other iteration is
\* preceded by a sleep of positive length.
C19_Terminates ==
    /\ (loopsStarted = 1 ~> (pc = "done" /\ outcome.kind # "none"))
    /\ [](immediateRetries <= 1)
    /\ [](pc = "sleeping" => waitTime > 0)
    /\ [](pc = "done" => outcome.kind # "none")

\* A resolution ended by the timeout after a credential fallback and answers
\* that were not all pending.
C19_Witness ==
    /\ pc = "done" /\ outcome.kind = "Timeout"
    /\ immediateRetries = 1 /\ ~allPending
    /\ nStatus > MaxFastPolls

\* C20: the fallback flag starts false and, once set, stays set in every
\* later state of the resolution; after the fallback no status check is
\* issued with the public access token.
C20_FallbackMonotone ==
    /\ [](nStatus = 0 => ~useApiKeyFallback)
    /\ [][loopsStarted' # loopsStarted => ~useApiKeyFallback']_vars
    /\ [][useApiKeyFallback => useApiKeyFallback']_vars
    /\ [][(useApiKeyFallback /\ nStatus' = nStatus + 1) => lastAuth' = "apiKey"]_vars
    /\ [](useApiKeyFallback /\ pc = "awaitStatus" => lastAuth = "apiKey")

\* Well after the fallback, a status check is in flight with the default
\* credential on a handle that has a public access token.
C20_Witness ==
    /\ useApiKeyFallback /\ publicAccessToken = "pat"
    /\ pc = "awaitStatus" /\ lastAuth = "apiKey"
    /\ lastEvent = "sleep" /\ nStatus >= 4

\* C21: a credential that a status check was answered unauthorized with is not
\* used by any later status check: the public token is given up at its first
\* unauthorized answer, and an unauthorized answer to the private credential
\* ends the resolution.
C21_NoRetryWithRefusedCredential ==
    /\ [][StatusAnswered("unauthorized") =>
            \/ pc' = "done"
            \/ pc' = "awaitStatus" /\ lastAuth' # lastAuth]_vars
    /\ [][(StatusAnswered("unauthorized") /\ lastAuth = "pat") =>
            useApiKeyFallback']_vars
    /\ [][(useApiKeyFallback /\ nStatus' # nStatus) => lastAuth' # "pat"]_vars
    /\ [][(StatusAnswered("unauthorized") /\ lastAuth = "apiKey") =>
            pc' = "done" /\ outcome'.kind = "Unauthorized"]_vars

\* The public token was refused; the loop has polled with the private
\* credential since and sleeps before the next such check.
C21_Witness ==
    /\ publicAccessToken = "pat" /\ useApiKeyFallback
    /\ pc = "sleeping" /\ lastAuth = "apiKey"
    /\ nStatus >= 3

\* C22: at most one status check of a resolution is issued with no sleep since
\* the previous one, and it is the one that follows the first unauthorized
\* answer to the public token; any other two consecutive status checks are
\* separated by exactly one sleep.
C22_OneUnsleptCheck ==
    /\ [](immediateRetries <= 1)
    /\ [][(nStatus >= 1 /\ nStatus' = nStatus + 1) =>
            \/ pc = "sleeping" /\ lastEvent' = "sleep"
                    /\ immediateRetries' = immediateRetries
            \/ /\ pc = "awaitStatus" /\ lastClass' = "unauthorized"
               /\ lastAuth = "pat" /\ ~useApiKeyFallback /\ useApiKeyFallback'
               /\ immediateRetries = 0 /\ immediateRetries' = 1]_vars
    /\ [][(pc = "sleeping" /\ pc' # "sleeping") => pc' \in {"awaitStatus", "done"}]_vars

\* A resolution whose unslept check was followed by checks after sleeps.
C22_Witness ==
    /\ immediateRetries = 1
    /\ pc = "awaitStatus" /\ lastEvent = "sleep"
    /\ nStatus >= 4

C24_BaseInterval ==
    pc = "sleeping" =>
        /\ (elapsed < 12000 =>
                interval >= 2500 /\ interval < 2500 + 500)
        /\ (elapsed >= 12000 =>
                interval >= 5000 /\ interval < 5000 + 500)

\* An iteration that began at exactly 12 s sleeps with the slow base.
C24_Witness ==
    /\ pc = "sleeping"
    /\ elapsed = 12000
    /\ interval = 5000

\* C25: every sleep lasts min(base + jitter, 5 min - elapsed) with jitter in
\* [0, 500): it is strictly positive and at most base + 500 ms, below 5.5 s.
C25_SleepDuration ==
    pc = "sleeping" =>
        LET base == IF elapsed < 12000 THEN 2500 ELSE 5000
        IN  /\ interval - base >= 0 /\ interval - base < 500
            /\ waitTime = Min(interval, 300000 - elapsed)
            /\ waitTime > 0
            /\ waitTime <= base + 500 /\ waitTime < 5500

\* An iteration that began in the last millisecond of the budget sleeps 1 ms.
C25_Witness ==
    /\ pc = "sleeping"
    /\ elapsed = 299999
    /\ waitTime = 1 /\ interval >= 5000

\* C26: the sleep after a retryable failure below the cap follows the rule of
\* the sleep after a pending answer: phase base + jitter, cut to the remaining
\* time, whatever the failure count.
C26_NoBackoff ==
    (pc = "sleeping" /\ lastClass \in {"retryable", "pending"}) =>
        /\ (lastClass = "retryable" <=> retryCount >= 1)
        /\ retryCount < MAX_RETRY_COUNT
        /\ \E jitter \in ScheduleJitters :
                interval = baseInterval(elapsed) + jitter
        /\ waitTime = Min(interval, remainingTime(elapsed))

\* The sleep after the 6th failure in a row has the plain slow interval.
C26_Witness ==
    /\ pc = "sleeping" /\ lastClass = "retryable"
    /\ retryCount = MAX_RETRY_COUNT - 1
    /\ interval = SLOW_POLLING_INTERVAL_MS /\ waitTime = interval

\* C27: the full fetch is issued at most once per resolution, directly after a
\* successful status check that reported completed, and is the last network
\* call: whatever it returns, no status check and no sleep follows.
C27_FetchOnceAndLast ==
    /\ [](nFetch <= 1)
    /\ [][nFetch' # nFetch =>
            StatusAnswered("completed") /\ pc' = "awaitFetch" /\ nFetch' = 1]_vars
    /\ [][StatusAnswered("completed") => nFetch' = nFetch + 1]_vars
    /\ [][nFetch = 1 =>
            nStatus' = nStatus /\ nFetch' = 1 /\ pc' \in {"awaitFetch", "done"}]_vars

\* The full fetch was answered 500 and the resolution ended there.
C27_Witness ==
    /\ pc = "done" /\ nFetch = 1 /\ nStatus >= 2
    /\ fetched.status = 500
    /\ outcome.kind = "TaskFetchError"

\* The state of the spec's state machine that the loop is in.
Machine ==
    IF pc = "idle" THEN "NotStarted"
    ELSE IF pc \in {"awaitStatus", "sleeping"} THEN "Polling"
    ELSE IF pc = "awaitFetch" THEN "Fetching"
    ELSE IF outcome.kind = "Task" THEN "Succeeded"
    ELSE "Failed"

\* C28: the resolution follows the state machine: it starts in Polling with
\* the fallback flag false; from Polling it stays in Polling (the flag may go
\* from false to true), goes to Fetching, or fails with Unauthorized,
\* FetchError, Timeout or TaskFailed; from Fetching it succeeds or fails with
\* Unauthorized or TaskFetchError; Succeeded and Failed are absorbing.
C28_StateMachine ==
    /\ [][(Machine = "NotStarted" /\ Machine' # "NotStarted") =>
            Machine' = "Polling" /\ ~useApiKeyFallback']_vars
    /\ [][Machine = "Polling" =>
            \/ Machine' = "Polling" /\ (useApiKeyFallback => useApiKeyFallback')
            \/ Machine' = "Fetching" /\ useApiKeyFallback' = useApiKeyFallback
            \/ /\ Machine' = "Failed"
               /\ outcome'.kind \in {"Unauthorized", "FetchError", "Timeout",
                                      "TaskFailed"}]_vars
    /\ [][Machine = "Fetching" =>
            \/ Machine' = "Fetching"
            \/ Machine' = "Succeeded"
            \/ /\ Machine' = "Failed"
               /\ outcome'.kind \in {"Unauthorized", "TaskFetchError"}]_vars
    /\ [][(Machine \in {"Succeeded", "Failed"}) =>
            Machine' = Machine /\ outcome' = outcome]_vars

\* C29: a FetchError carries as cause the error of the most recent, 7th,
\* retryable failure: the Error thrown when that failure was a transport
\* error, and none when it was a 5xx answer, also when an earlier failure of
\* the run was a transport error.
C29_FetchErrorCause ==
    /\ [](outcome.kind = "FetchError" =>
            /\ failRun = MAX_RETRY_COUNT
            /\ outcome.cause = lastThrown)
    /\ [][(StatusAnswered("retryable") /\ failRun' = MAX_RETRY_COUNT) =>
            /\ outcome'.kind = "FetchError"
            /\ outcome'.cause = lastThrown'
            /\ (lastError # "undefined" /\ lastThrown' = "undefined" =>
                    outcome'.cause = "undefined")]_vars

\* A FetchError whose cause is the second Error object, thrown by the 7th
\* status check.
C29_Witness ==
    /\ outcome.kind = "FetchError"
    /\ outcome.cause = "Error2" /\ lastThrown = "Error2"
    /\ failRun = MAX_RETRY_COUNT

C31_ClassificationIsPartition ==
    classified # NoClassified =>
        LET resp == classified.resp
            r == classified.result
            success == r.ok
            unauthorized == ~r.ok /\ r.unauthorized
            retryable == ~r.ok /\ r.retryable
            nonRetryable == ~r.ok /\ ~r.unauthorized /\ ~r.retryable
            is2xx == ~resp.threw /\ resp.status >= 200 /\ resp.status <= 299
            isDenied == ~resp.threw /\ resp.status \in {401, 403, 404}
            isBroken == resp.threw \/ resp.status >= 500
        IN  /\ success <=> is2xx
            /\ unauthorized <=> isDenied
            /\ retryable <=> isBroken
            /\ nonRetryable <=> (~is2xx /\ ~isDenied /\ ~isBroken)
            /\ Cardinality({c \in {"success", "unauthorized", "retryable", "nonRetryable"} :
                    \/ c = "success" /\ success
                    \/ c = "unauthorized" /\ unauthorized
                    \/ c = "retryable" /\ retryable
                    \/ c = "nonRetryable" /\ nonRetryable}) = 1
            /\ ~(r.unauthorized /\ r.retryable)

\* A 404 was classified: unauthorized, and not retryable.
C31_Witness ==
    /\ classified.resp.status = 404
    /\ classified.result.unauthorized /\ ~classified.result.retryable

\* C32: two handles that poll concurrently are independent: in every
\* interleaving of their loops a step of one handle leaves the state of the
\* other (its outcome, failure counter, fallback flag and network calls among
\* the rest) as it was, and a handle that is resumed finds its state as it left
\* it.
C32_HandlesIndependent ==
    [][/\ cur' = cur => other' = other
       /\ cur' # cur => (other' = Handle /\ Handle' = other)]_vars

\* Both loops are under way: one sleeps after two failures, with its token;
\* the other has fallen back to the private credential and awaits an answer.
C32_Witness ==
    /\ pc = "sleeping" /\ retryCount = 2 /\ ~useApiKeyFallback /\ nStatus = 2
    /\ other.pc = "awaitStatus" /\ other.retryCount = 0
    /\ other.useApiKeyFallback /\ other.nStatus = 2

\* C33: where the loop awaits a status check or sleeps, the failure counter is
\* between 0 and 6 and equals the number of retryable failures since the last
\* successful status check (or the start); an unauthorized answer that makes
\* the loop fall back and a non-retryable answer leave it as it is, so that
\* after 6 failures and such an answer one more failure ends in FetchError.
C33_CounterCountsFailures ==
    /\ [](pc \in {"awaitStatus", "sleeping"} =>
            /\ retryCount >= 0 /\ retryCount <= MAX_RETRY_COUNT - 1
            /\ retryCount = failRun)
    /\ [][(StatusAnswered("other")
                \/ (StatusAnswered("unauthorized") /\ pc' = "awaitStatus")) =>
            retryCount' = retryCount]_vars
    /\ [][(StatusAnswered("retryable") /\ retryCount = MAX_RETRY_COUNT - 1) =>
            pc' = "done" /\ outcome'.kind = "FetchError"]_vars

\* Six failures, then a 400: the loop sleeps with its count still at 6.
C33_Witness ==
    /\ pc = "sleeping" /\ lastClass = "other"
    /\ retryCount = MAX_RETRY_COUNT - 1 /\ failRun = MAX_RETRY_COUNT - 1
    /\ nStatus = MAX_RETRY_COUNT

\* C34: the full fetch never carries the public access token: it is issued
\* with the transport's default (private) credential, also when the handle has
\* a token and the fallback flag is false; answered 401, 403 or 404 it ends the
\* resolution with Unauthorized.
C34_FetchUsesDefaultCredential ==
    /\ [](pc = "awaitFetch" => lastAuth = "apiKey")
    /\ [][nFetch' # nFetch =>
            nFetch' = nFetch + 1 /\ lastAuth' = "apiKey"]_vars
    /\ [][(FetchAnswered /\ ~fetched'.threw /\ fetched'.status \in {401, 403, 404}) =>
            outcome'.kind = "Unauthorized"]_vars

\* The status checks were accepted with the public token, the flag is unset,
\* and the full fetch, made with the private credential, was answered 401.
C34_Witness ==
    /\ publicAccessToken = "pat" /\ ~useApiKeyFallback
    /\ nStatus >= 2 /\ immediateRetries = 0
    /\ lastEvent = "fetch" /\ lastAuth = "apiKey"
    /\ fetched = Http(401, "error")
    /\ outcome.kind = "Unauthorized"

\* C35: no resolution returns a Task once more than 5 minutes have elapsed
\* since its first iteration.
C35_NoTaskAfterDeadline ==
    outcome.kind = "Task" => now - startTime <= POLLING_TIMEOUT_MS

\* C36: a successful status check whose lifecycle status is neither completed
\* nor failed resets the failure counter, leaves the fallback flag as it is and
\* issues no full fetch; one sleep follows it, and after that sleep the next
\* iteration.
C36_PendingSleepsOnce ==
    /\ [][StatusAnswered("pending") =>
            /\ retryCount' = 0
            /\ UNCHANGED <<useApiKeyFallback, nFetch, nStatus, iterations>>
            /\ pc' = "sleeping" /\ outcome' = NoOutcome]_vars
    /\ [][(pc = "sleeping" /\ lastClass = "pending" /\ pc' # "sleeping") =>
            /\ lastEvent' = "sleep" /\ now' = now + waitTime
            /\ iterations' = iterations + 1
            /\ UNCHANGED <<retryCount, useApiKeyFallback, nFetch>>
            /\ \/ pc' = "awaitStatus" /\ nStatus' = nStatus + 1
               \/ pc' = "done" /\ outcome'.kind = "Timeout"]_vars

\* A non-terminal answer after failures and after the fallback: the loop
\* sleeps with its counter back at zero and its flag still set.
C36_Witness ==
    /\ pc = "sleeping" /\ lastClass = "pending"
    /\ retryCount = 0 /\ lastError = "Error"
    /\ useApiKeyFallback /\ nFetch = 0

====
